---- MODULE Spec2Model ----
(***************************************************************************)
(* Model of the country dashboard backend: the ingestion and normalization *)
(* of the REST Countries payload (Backend/api.py), the FastAPI handlers    *)
(* (Backend/main.py) and the helper library (Backend/utils.py).            *)
(*                                                                         *)
(* Conventions.                                                            *)
(*  - A text is a sequence of one-character strings, so that lower() and   *)
(*    join() are computed character by character.                          *)
(*  - A JSON scalar is a tagged record [t, n]: t = "num" carries the       *)
(*    integer n, "str" and "null" are the non-numbers, "absent" means the  *)
(*    key is missing from the raw object.                                  *)
(*  - Densities are kept in hundredths (0.25 is 25).  The statistics are   *)
(*    kept in thousandths (125.0 is 125000) because the endpoint's median  *)
(*    of an even sample is not rounded.                                    *)
(*  - round(x, 2) is computed on the exact quotient, ties to even.  Python *)
(*    rounds the binary float nearest to the quotient, which differs only  *)
(*    for a tie that is not exact in binary (0.225 becomes 0.23); the      *)
(*    payloads of the query, normalization and statistics runs produce no  *)
(*    such tie, and the ranking runs compute no statistic.                 *)
(*  - A non-number under population or area is the JSON null or one fixed  *)
(*    JSON string: two such strings compare equal, a string or null        *)
(*    against a number raises TypeError.                                   *)
(*  - A call result is [exc, status, val]: exc = "none" is a normal        *)
(*    return.  A handler is modelled up to the value it returns or the     *)
(*    exception it raises; the serialization of a returned value through   *)
(*    the response_model of the route is not part of the model.            *)
(*  - A canonical record is a Python dict, held by reference: a helper     *)
(*    that returns records of its input returns the input's own dicts.     *)
(*    References(req, cs) lists the positions in the input of the dicts    *)
(*    the returned value holds, and an assignment through the returned     *)
(*    value is an assignment to the record at that position.               *)
(***************************************************************************)
EXTENDS Integers, Sequences, FiniteSets, TLC

VARIABLES
    api,        \* what the REST Countries service answers: [kind, body]
    pc,         \* "ready": no call made yet; "done": the call has returned;
                \* "written": the caller has assigned to the returned value
    request,    \* the call made: [op, metric, region, name, index, fields]
    countries,  \* the list get_countries() handed to the handler
    response,   \* the outcome of the call: [exc, status, val]
    events,     \* what the call did, in order: "fetch", "invalid_metric",
                \* "sort", "statistics"
    proc        \* the concurrent runs: for each request in flight its local
                \* variables [pc, request, answer, countries, response]

vars == <<api, pc, request, countries, response, events, proc>>

----------------------------------------------------------------------------
(* Bounds *)

MaxLen == 3       \* raw entries in a payload of the query runs
MaxRaw == 2       \* raw entries in a payload of the normalization runs
MaxSample == 3    \* raw entries in a payload of the statistics runs
MaxExtra == 1     \* raw entries beyond the top-10 cut-off in the ranking runs
MaxRequests == 2  \* requests in flight in the concurrent runs

----------------------------------------------------------------------------
(* Python values *)

Return(v) == [exc |-> "none", status |-> 0, val |-> v]
Raise(e, v) == [exc |-> e, status |-> 0, val |-> v]
\* raise HTTPException(status_code=code, ...)
HTTPException(code) == [exc |-> "HTTPException", status |-> code, val |-> <<>>]

Num(k) == [t |-> "num", n |-> k]
NotNum(tag) == [t |-> tag, n |-> 0]
IsNum(v) == v.t = "num"

NA == <<"N", "/", "A">>
CommaSpace == <<",", " ">>

Txt(s) == [t |-> "str", s |-> s]
NoTxt(tag) == [t |-> tag, s |-> <<>>]

LowerChar(c) ==
    CASE c = "A" -> "a"
      [] c = "E" -> "e"
      [] c = "N" -> "n"
      [] c = "P" -> "p"
      [] c = "C" -> "c"
      [] OTHER -> c

\* str.lower()
Lower(s) == [i \in 1..Len(s) |-> LowerChar(s[i])]

RECURSIVE Join(_, _)
\* sep.join(parts)
Join(sep, parts) ==
    IF parts = <<>> THEN <<>>
    ELSE IF Len(parts) = 1 THEN parts[1]
    ELSE parts[1] \o sep \o Join(sep, Tail(parts))

\* the nearest integer to a / b for b > 0, ties to the even neighbour
RoundDiv(a, b) ==
    LET q == a \div b
        r == a % b
    IN  IF 2 * r < b THEN q
        ELSE IF 2 * r > b THEN q + 1
        ELSE IF q % 2 = 0 THEN q ELSE q + 1

----------------------------------------------------------------------------
(* utils.calculate_density *)

\* the quotient truncated, not rounded, to two decimals
calculate_densityTruncated(population, area) ==
    IF ~IsNum(area) THEN Raise("TypeError", 0)
    ELSE IF area.n <= 0 THEN Return(0)
    ELSE IF ~IsNum(population) THEN Raise("TypeError", 0)
    ELSE Return((100 * population.n) \div area.n)

calculate_density(population, area) ==
    IF ~IsNum(area) THEN Raise("TypeError", 0)
    ELSE IF area.n <= 0 THEN Return(0)
    ELSE IF ~IsNum(population) THEN Raise("TypeError", 0)
    ELSE Return(RoundDiv(100 * population.n, area.n))

----------------------------------------------------------------------------
(* api.get_countries *)

DefaultRecord ==
    [Nombre |-> NA, Poblacion |-> Num(0), Area |-> Num(0), Densidad |-> 0,
     Region |-> Txt(NA), Subregion |-> Txt(NA), Idiomas |-> NA, Monedas |-> NA]

\* country.get("name", {}).get("common", "N/A")
ExtractName(country) ==
    IF country.name.t = "absent" THEN Return(NA)
    ELSE IF country.name.t # "dict" THEN Raise("AttributeError", NA)
    ELSE IF country.name.hasCommon THEN Return(country.name.common)
    ELSE Return(NA)

\* the lookup without its default: a missing key gives None
GetNumberNoDefault(v) == IF v.t = "absent" THEN NotNum("null") ELSE v

\* country.get(key, 0) for the two numeric fields
GetNumber(v) == IF v.t = "absent" THEN Num(0) ELSE v

\* country.get(key, "N/A") for region and subregion
GetText(v) == IF v.t = "absent" THEN Txt(NA) ELSE v

\* ", ".join(country.get("languages", {}).values()) or "N/A"
ExtractLanguages(country) ==
    IF country.languages.t = "absent" THEN Return(NA)
    ELSE IF country.languages.t # "map" THEN Raise("AttributeError", NA)
    ELSE LET joined == Join(CommaSpace, country.languages.vals)
         IN  Return(IF joined = <<>> THEN NA ELSE joined)

\* f"{code} ({info['name']})"
FormatCurrency(item) == item.code \o <<" ", "(">> \o item.name \o <<")">>

RECURSIVE CurrencyList(_)
CurrencyList(items) ==
    IF items = <<>> THEN <<>>
    ELSE IF Head(items).wf
         THEN <<FormatCurrency(Head(items))>> \o CurrencyList(Tail(items))
         ELSE CurrencyList(Tail(items))

ExtractCurrencies(country) ==
    IF country.currencies.t = "absent" THEN Return(NA)
    ELSE IF country.currencies.t # "map" THEN Raise("AttributeError", NA)
    ELSE LET joined == Join(CommaSpace, CurrencyList(country.currencies.items))
         IN  Return(IF joined = <<>> THEN NA ELSE joined)

\* one iteration of the loop of get_countries
NormalizeEntry(country) ==
    LET name == ExtractName(country)
        population == GetNumber(country.population)
        area == GetNumber(country.area)
        languages == ExtractLanguages(country)
        currencies == ExtractCurrencies(country)
        density == calculate_density(population, area)
    IN  IF name.exc # "none" THEN Raise(name.exc, DefaultRecord)
        ELSE IF languages.exc # "none" THEN Raise(languages.exc, DefaultRecord)
        ELSE IF currencies.exc # "none" THEN Raise(currencies.exc, DefaultRecord)
        ELSE IF density.exc # "none" THEN Raise(density.exc, DefaultRecord)
        ELSE Return([Nombre |-> name.val,
                     Poblacion |-> population,
                     Area |-> area,
                     Densidad |-> density.val,
                     Region |-> GetText(country.region),
                     Subregion |-> GetText(country.subregion),
                     Idiomas |-> languages.val,
                     Monedas |-> currencies.val])

\* the three except clauses of get_countries all return []
get_countries(answer) ==
    IF answer.kind # "ok" THEN <<>>
    ELSE IF \E i \in 1..Len(answer.body) :
                NormalizeEntry(answer.body[i]).exc # "none"
         THEN <<>>
         ELSE [i \in 1..Len(answer.body) |-> NormalizeEntry(answer.body[i]).val]

----------------------------------------------------------------------------
(* Sorting and arithmetic helpers of the handlers *)

\* the value of a canonical record under a key of the record
Field(country, key) ==
    CASE key = "Poblacion" -> country.Poblacion
      [] key = "Area" -> country.Area
      [] key = "Densidad" -> Num(country.Densidad)
      [] OTHER -> NotNum("absent")

\* the same value in hundredths
Centi(country, key) ==
    IF key = "Densidad" THEN country.Densidad ELSE 100 * Field(country, key).n

\* comparing two keys with < raises TypeError unless both are numbers or
\* both are strings
Comparable(keys) ==
    \/ \A i \in 1..Len(keys) : keys[i].t = "num"
    \/ \A i \in 1..Len(keys) : keys[i].t = "str"

RECURSIVE SortedAscending(_, _)
\* the sort without reverse=True
SortedAscending(s, key) ==
    IF s = <<>> THEN <<>>
    ELSE LET init == SortedAscending(SubSeq(s, 1, Len(s) - 1), key)
             x == s[Len(s)]
             p == Cardinality({i \in 1..Len(init) :
                                  Field(init[i], key).n <= Field(x, key).n})
         IN  SubSeq(init, 1, p) \o <<x>> \o SubSeq(init, p + 1, Len(init))

RECURSIVE SortedDescUnstable(_, _)
\* a descending sort that puts a record before the earlier records of equal key
SortedDescUnstable(s, key) ==
    IF s = <<>> THEN <<>>
    ELSE LET init == SortedDescUnstable(SubSeq(s, 1, Len(s) - 1), key)
             x == s[Len(s)]
             p == Cardinality({i \in 1..Len(init) :
                                  Field(init[i], key).n > Field(x, key).n})
         IN  SubSeq(init, 1, p) \o <<x>> \o SubSeq(init, p + 1, Len(init))

RECURSIVE SortedDesc(_, _)
\* sorted(countries, key=lambda x: x[key], reverse=True): stable
SortedDesc(s, key) ==
    IF s = <<>> THEN <<>>
    ELSE LET init == SortedDesc(SubSeq(s, 1, Len(s) - 1), key)
             x == s[Len(s)]
             p == Cardinality({i \in 1..Len(init) :
                                  Field(init[i], key).n >= Field(x, key).n})
         IN  SubSeq(init, 1, p) \o <<x>> \o SubSeq(init, p + 1, Len(init))

RECURSIVE SortedAsc(_)
\* sorted(values)
SortedAsc(s) ==
    IF s = <<>> THEN <<>>
    ELSE LET init == SortedAsc(SubSeq(s, 1, Len(s) - 1))
             x == s[Len(s)]
             p == Cardinality({i \in 1..Len(init) : init[i] <= x})
         IN  SubSeq(init, 1, p) \o <<x>> \o SubSeq(init, p + 1, Len(init))

RECURSIVE Sum(_)
Sum(s) == IF s = <<>> THEN 0 ELSE Head(s) + Sum(Tail(s))

RECURSIVE SumSq(_)
SumSq(s) == IF s = <<>> THEN 0 ELSE Head(s) * Head(s) + SumSq(Tail(s))

RECURSIVE SumSqDev(_, _)
SumSqDev(s, m) ==
    IF s = <<>> THEN 0 ELSE (Head(s) - m) * (Head(s) - m) + SumSqDev(Tail(s), m)

RECURSIVE Isqrt(_)
\* the integer part of the square root
Isqrt(k) ==
    IF k < 2 THEN k
    ELSE LET s == 2 * Isqrt(k \div 4)
         IN  IF (s + 1) * (s + 1) <= k THEN s + 1 ELSE s

\* the nearest integer to the square root
RoundSqrt(k) == LET r == Isqrt(k) IN IF k - r * r > r THEN r + 1 ELSE r

RECURSIVE SelectSeq2(_, _)
\* [x for x in s if Test(x)] for the region test
SelectSeq2(s, want) ==
    IF s = <<>> THEN <<>>
    ELSE IF Lower(Head(s).Region.s) = want
         THEN <<Head(s)>> \o SelectSeq2(Tail(s), want)
         ELSE SelectSeq2(Tail(s), want)

----------------------------------------------------------------------------
(* main.py: the handlers.  XxxTry is the body of the handler's try block,  *)
(* the handler adds its except clauses.                                    *)

TopN == 10

Take(s, k) == SubSeq(s, 1, IF Len(s) < k THEN Len(s) ELSE k)

Keys(cs, key) == [i \in 1..Len(cs) |-> Field(cs[i], key)]

get_all_countries(answer) ==
    LET cs == get_countries(answer)
    IN  Return([i \in 1..Len(cs) |->
                   [name |-> cs[i].Nombre, population |-> cs[i].Poblacion,
                    area |-> cs[i].Area, density |-> cs[i].Densidad,
                    region |-> cs[i].Region, subregion |-> cs[i].Subregion]])

top_10Try(metric, cs) ==
    IF metric \notin {"population", "area"} THEN HTTPException(400)
    ELSE LET key == IF metric = "population" THEN "Poblacion" ELSE "Area"
             sorted_list == Take(SortedDesc(cs, key), TopN)
         IN  IF Len(cs) >= 2 /\ ~Comparable(Keys(cs, key))
             THEN Raise("TypeError", <<>>)
             ELSE Return([i \in 1..Len(sorted_list) |->
                             [name |-> sorted_list[i].Nombre,
                              metric_value |-> Field(sorted_list[i], key)]])

top_10(metric, answer) ==
    LET r == top_10Try(metric, get_countries(answer))
    IN  IF r.exc = "none" THEN r
        ELSE IF r.exc = "KeyError" THEN HTTPException(400)
        ELSE HTTPException(500)

filter_by_regionTry(region, cs) ==
    IF \E i \in 1..Len(cs) : cs[i].Region.t # "str"
    THEN Raise("AttributeError", <<>>)
    ELSE LET filtered == SelectSeq2(cs, Lower(region))
         IN  IF filtered # <<>> THEN Return(filtered) ELSE HTTPException(404)

filter_by_region(region, answer) ==
    LET r == filter_by_regionTry(region, get_countries(answer))
    IN  IF r.exc = "none" THEN r ELSE HTTPException(500)

MetricKey(metric) ==
    CASE metric = "population" -> "Poblacion"
      [] metric = "area" -> "Area"
      [] metric = "density" -> "Densidad"
      [] OTHER -> "none"

RECURSIVE NonNegative(_, _)
\* the sample that keeps the zeros: value >= 0
NonNegative(cs, key) ==
    IF cs = <<>> THEN <<>>
    ELSE IF Centi(Head(cs), key) >= 0
         THEN <<Centi(Head(cs), key)>> \o NonNegative(Tail(cs), key)
         ELSE NonNegative(Tail(cs), key)

RECURSIVE Positive(_, _)
\* [country[key] for country in cs if country[key] > 0], in hundredths
Positive(cs, key) ==
    IF cs = <<>> THEN <<>>
    ELSE IF Centi(Head(cs), key) > 0
         THEN <<Centi(Head(cs), key)>> \o Positive(Tail(cs), key)
         ELSE Positive(Tail(cs), key)

\* the median of the endpoint, in thousandths: not rounded
MedianOfSorted(sv) ==
    LET n == Len(sv)
    IN  IF n % 2 = 1 THEN 10 * sv[(n \div 2) + 1]
        ELSE 5 * (sv[n \div 2] + sv[(n \div 2) + 1])

\* lines 152-155: mean, median, variance and std_dev of the endpoint
EndpointStats(metric, values) ==
    LET n == Len(values)
        mean == RoundDiv(Sum(values), n)
        variance == RoundDiv(SumSqDev(values, mean), 100 * n)
        std_dev == RoundSqrt(100 * variance)
    IN  [metric |-> metric,
         mean |-> 10 * mean,
         median |-> MedianOfSorted(SortedAsc(values)),
         variance |-> 10 * variance,
         std_dev |-> 10 * std_dev]

calculate_statsTry(metric, cs) ==
    LET key == MetricKey(metric)
        values == Positive(cs, key)
    IN  IF key = "none" THEN HTTPException(400)
        ELSE IF \E i \in 1..Len(cs) : ~IsNum(Field(cs[i], key))
             THEN Raise("TypeError", <<>>)
        ELSE IF values = <<>> THEN Raise("ZeroDivisionError", <<>>)
        ELSE Return(EndpointStats(metric, values))

\* the handler without its except ZeroDivisionError clause
calculate_statsNoZeroDivision(metric, answer) ==
    LET r == calculate_statsTry(metric, get_countries(answer))
    IN  IF r.exc = "none" THEN r ELSE HTTPException(500)

calculate_stats(metric, answer) ==
    LET r == calculate_statsTry(metric, get_countries(answer))
    IN  IF r.exc = "none" THEN r
        ELSE IF r.exc = "ZeroDivisionError" THEN HTTPException(400)
        ELSE HTTPException(500)

\* the texts the regex of the metric parameter of calculate_stats matches
QueryPattern == {"population", "area", "density"}

\* the answer to a request whose query parameter fails its declared regex
RequestValidationError ==
    [exc |-> "RequestValidationError", status |-> 422, val |-> <<>>]

\* what the client receives: 200 for a returned value, the status of a
\* raised HTTPException otherwise
Serve(r) == [r EXCEPT !.status = IF r.exc = "none" THEN 200 ELSE r.status]

----------------------------------------------------------------------------
(* utils.py: the helper library *)

ZeroStats == [mean |-> 0, median |-> 0, variance |-> 0, std_dev |-> 0]

\* statistics.variance(values): the sample variance, in hundredths
SampleVariance(values) ==
    LET n == Len(values)
    IN  RoundDiv(n * SumSq(values) - Sum(values) * Sum(values),
                 100 * n * (n - 1))

\* round(statistics.median(values), 2), in hundredths
RoundedMedian(sv) ==
    LET n == Len(sv)
    IN  IF n % 2 = 1 THEN sv[(n \div 2) + 1]
        ELSE RoundDiv(sv[n \div 2] + sv[(n \div 2) + 1], 2)

calculate_statistics(data, metric) ==
    LET values == Positive(data, metric)
        n == Len(values)
        mean == RoundDiv(Sum(values), n)
        variance == IF n > 1 THEN SampleVariance(values) ELSE 0
        std_dev == IF variance > 0 THEN RoundSqrt(100 * variance) ELSE 0
    IN  IF \E i \in 1..Len(data) : Field(data[i], metric).t \in {"str", "null"}
        THEN Return(ZeroStats)
        ELSE IF values = <<>> THEN Return(ZeroStats)
        ELSE Return([mean |-> 10 * mean,
                     median |-> 10 * RoundedMedian(SortedAsc(values)),
                     variance |-> 10 * variance,
                     std_dev |-> 10 * std_dev])

\* the filter without lower() on the requested region
filter_countries_by_regionExact(data, region) ==
    IF \E i \in 1..Len(data) : data[i].Region.t # "str"
    THEN Raise("AttributeError", <<>>)
    ELSE Return(SelectSeq2(data, region))

filter_countries_by_region(data, region) ==
    IF \E i \in 1..Len(data) : data[i].Region.t # "str"
    THEN Raise("AttributeError", <<>>)
    ELSE Return(SelectSeq2(data, Lower(region)))

\* max(data, key=...) and min(data, key=...) return the first extreme record
FirstMax(data, metric) ==
    CHOOSE i \in 1..Len(data) :
        /\ \A j \in 1..Len(data) : Field(data[j], metric).n <= Field(data[i], metric).n
        /\ \A j \in 1..(i - 1) : Field(data[j], metric).n < Field(data[i], metric).n

\* the first record, whatever the values
FirstRecord(data, metric) == 1

FirstMin(data, metric) ==
    CHOOSE i \in 1..Len(data) :
        /\ \A j \in 1..Len(data) : Field(data[j], metric).n >= Field(data[i], metric).n
        /\ \A j \in 1..(i - 1) : Field(data[j], metric).n > Field(data[i], metric).n

find_extreme_values(data, metric) ==
    IF data = <<>> THEN Return([max |-> <<>>, min |-> <<>>])
    ELSE IF Len(data) >= 2 /\ ~Comparable(Keys(data, metric))
              /\ \E i \in 1..Len(data) : Field(data[i], metric).t # "absent"
         THEN Return([max |-> <<>>, min |-> <<>>])
         ELSE Return([max |-> <<data[FirstMax(data, metric)]>>,
                      min |-> <<data[FirstMin(data, metric)]>>])

RECURSIVE SplitOpen(_)
\* text.split(" ("): the parts between the occurrences of " (", left to right
SplitOpen(text) ==
    LET at == {k \in 1..(Len(text) - 1) : text[k] = " " /\ text[k + 1] = "("}
    IN  IF at = {} THEN <<text>>
        ELSE LET k == CHOOSE i \in at : \A j \in at : i <= j
             IN  <<SubSeq(text, 1, k - 1)>> \o SplitOpen(SubSeq(text, k + 2, Len(text)))

\* text.replace(")", "")
RemoveClose(text) ==
    LET Kept(c) == c # ")"
    IN  SelectSeq(text, Kept)

RECURSIVE Strip(_)
\* text.strip(), the blank being the only whitespace of the texts
Strip(text) ==
    IF text = <<>> THEN text
    ELSE IF Head(text) = " " THEN Strip(Tail(text))
    ELSE IF text[Len(text)] = " " THEN Strip(SubSeq(text, 1, Len(text) - 1))
    ELSE text

\* "Formato invalido"
FormatoInvalido ==
    <<"F", "o", "r", "m", "a", "t", "o", " ", "i", "n", "v", "a", "l", "i", "d", "o">>

\* code, name = currency_str.split(" (") raises ValueError unless the split
\* gives exactly two parts
clean_currency_format(currency_str) ==
    IF currency_str = NA THEN Return([code |-> NA, name |-> NA])
    ELSE LET parts == SplitOpen(currency_str)
         IN  IF Len(parts) # 2
             THEN Return([code |-> NA, name |-> FormatoInvalido])
             ELSE Return([code |-> parts[1], name |-> Strip(RemoveClose(parts[2]))])

\* the keys of a canonical record
CanonicalKeys ==
    {"Nombre", "Poblacion", "Area", "Densidad", "Region", "Subregion", "Idiomas",
     "Monedas"}

\* fields is None: the dict passed in is returned, not a copy of it
format_country_output(country, fields) ==
    IF ~fields.given THEN Return(country)
    ELSE Return([f \in {fields.keys[i] : i \in 1..Len(fields.keys)} \cap CanonicalKeys
                    |-> country[f]])

\* one line of the text: its wording, the metric and the number it quotes
Line(text, metric, value) == [text |-> text, metric |-> metric, value |-> value]

\* the skew decided without the factor 1.2
interpret_statisticsNoMargin(stats, metric) ==
    LET skew ==
            IF stats.mean > stats.median
            THEN "- Alta asimetria positiva (valores extremos altos)."
            ELSE IF stats.median > stats.mean
                 THEN "- Alta asimetria negativa (valores extremos bajos)."
                 ELSE "- Distribucion simetrica."
    IN  IF stats.mean = 0
        THEN Return(<<Line("No hay suficientes datos para interpretar estadisticas.",
                           "", 0)>>)
        ELSE Return(<<Line("Analisis de", metric, 0),
                      Line(skew, "", 0),
                      Line("- Baja dispersion entre valores.", "", 0),
                      Line("- Media:", "", stats.mean),
                      Line("- Mediana:", "", stats.median),
                      Line("- Desviacion estandar:", "", stats.std_dev)>>)

\* the statistics are in thousandths: mean > median * 1.2 is
\* 10 * mean > 12 * median, std_dev / mean > 0.5 is 2 * std_dev > mean
interpret_statistics(stats, metric) ==
    LET skew ==
            IF 10 * stats.mean > 12 * stats.median
            THEN "- Alta asimetria positiva (valores extremos altos)."
            ELSE IF 10 * stats.median > 12 * stats.mean
                 THEN "- Alta asimetria negativa (valores extremos bajos)."
                 ELSE "- Distribucion simetrica."
        dispersion ==
            IF stats.mean > 0 /\ stats.std_dev > stats.mean
            THEN "- Alta dispersion entre valores."
            ELSE IF stats.mean > 0 /\ 2 * stats.std_dev > stats.mean
                 THEN "- Dispersion moderada entre valores."
                 ELSE "- Baja dispersion entre valores."
    IN  IF stats.mean = 0
        THEN Return(<<Line("No hay suficientes datos para interpretar estadisticas.",
                           "", 0)>>)
        ELSE Return(<<Line("Analisis de", metric, 0),
                      Line(skew, "", 0),
                      Line(dispersion, "", 0),
                      Line("- Media:", "", stats.mean),
                      Line("- Mediana:", "", stats.median),
                      Line("- Desviacion estandar:", "", stats.std_dev)>>)

\* the last match instead of the first
find_country_by_nameLast(data, name) ==
    LET hits == {i \in 1..Len(data) : Lower(data[i].Nombre) = Lower(name)}
    IN  IF hits = {} THEN Return(<<>>)
        ELSE Return(<<data[CHOOSE i \in hits : \A j \in hits : j <= i]>>)

\* next((country for country in data if ...), None): None is <<>>, a
\* record is the one-element sequence holding it
find_country_by_name(data, name) ==
    LET hits == {i \in 1..Len(data) : Lower(data[i].Nombre) = Lower(name)}
    IN  IF hits = {} THEN Return(<<>>)
        ELSE Return(<<data[CHOOSE i \in hits : \A j \in hits : i <= j]>>)

----------------------------------------------------------------------------
(* The inputs: what the REST Countries service may answer, and the calls   *)

Pe == <<"P", "e">>
PeLower == <<"p", "e">>
Ca == <<"C", "a">>
Am == <<"A", "m">>
AmLower == <<"a", "m">>
Eu == <<"E", "u">>
Oc == <<"O", "c">>
Es == <<"e", "s">>
En == <<"e", "n">>

NameDict(common) == [t |-> "dict", hasCommon |-> TRUE, common |-> common]
NoName(tag) == [t |-> tag, hasCommon |-> FALSE, common |-> <<>>]
LangMap(vals) == [t |-> "map", vals |-> vals]
NoLang(tag) == [t |-> tag, vals |-> <<>>]
CurMap(items) == [t |-> "map", items |-> items]
NoCur(tag) == [t |-> tag, items |-> <<>>]
Cop == [code |-> <<"C">>, wf |-> TRUE, name |-> <<"P">>]
Usd == [code |-> <<"U">>, wf |-> TRUE, name |-> <<"D">>]
BadCur == [code |-> <<"X">>, wf |-> FALSE, name |-> <<>>]

\* a well-formed raw entry
Entry(name, population, area, region) ==
    [name |-> NameDict(name), population |-> population, area |-> area,
     region |-> region, subregion |-> NoTxt("absent"),
     languages |-> LangMap(<<Es>>), currencies |-> CurMap(<<Cop>>)]

Base == Entry(Pe, Num(3), Num(2), Txt(Am))

\* the raw entry {}: every optional field is missing
AllAbsent ==
    [name |-> NoName("absent"), population |-> NotNum("absent"),
     area |-> NotNum("absent"), region |-> NoTxt("absent"),
     subregion |-> NoTxt("absent"), languages |-> NoLang("absent"),
     currencies |-> NoCur("absent")]

\* the raw entries of the query runs: well-formed, regions in both cases
QueryEntries ==
    {Entry(nr[1], Num(pa[1]), Num(pa[2]), nr[2]) :
        nr \in {<<Pe, Txt(Am)>>, <<PeLower, Txt(AmLower)>>, <<Ca, Txt(Eu)>>,
                <<Ca, NoTxt("absent")>>},
        pa \in {<<3, 0>>, <<1, 8>>}}

\* the raw entries of the normalization runs: Base with one field replaced
RawEntries ==
    {Base, AllAbsent}
    \cup {[Base EXCEPT !.name = v] :
            v \in {NoName("absent"), NoName("str"), NoName("dict")}}
    \cup {[Base EXCEPT !.population = v] :
            v \in {NotNum("absent"), NotNum("str"), NotNum("null"), Num(1)}}
    \cup {[Base EXCEPT !.area = v] :
            v \in {NotNum("absent"), NotNum("str"), Num(0), Num(-1), Num(8)}}
    \cup {[Base EXCEPT !.population = NotNum("str"), !.area = Num(0)]}
    \cup {[Base EXCEPT !.region = v] : v \in {NoTxt("absent"), NoTxt("null")}}
    \cup {[Base EXCEPT !.languages = v] :
            v \in {NoLang("null"), LangMap(<<>>), LangMap(<<Es, En>>)}}
    \cup {[Base EXCEPT !.currencies = v] :
            v \in {NoCur("null"), CurMap(<<BadCur>>), CurMap(<<Cop, BadCur, Usd>>)}}

\* the raw entries of the statistics runs
StatEntries ==
    {Entry(Pe, Num(pa[1]), Num(pa[2]), Txt(Am)) :
        pa \in {<<-10, 4>>, <<0, 0>>, <<10, 4>>, <<20, 4>>, <<30, 8>>, <<40, 8>>}}

Letters == <<"a", "b", "c", "d", "e", "f", "g", "h", "i", "j", "k", "l", "m">>

\* the payloads of the ranking runs: one distinct name per position, two
\* populations
RankBodies ==
    UNION {{[i \in 1..len |->
                Entry(<<Letters[i]>>, Num(p[i]), Num(3 - p[i]), Txt(Am))] :
              p \in [1..len -> {1, 2}]} :
           len \in (TopN - 1)..(TopN + MaxExtra)}

RECURSIVE SeqsUpTo(_, _)
\* the sequences over S of length at most k
SeqsUpTo(S, k) ==
    IF k = 0 THEN {<<>>}
    ELSE LET shorter == SeqsUpTo(S, k - 1)
         IN  shorter \cup {Append(q, x) : q \in {r \in shorter : Len(r) = k - 1}, x \in S}

\* requests.get raises, raise_for_status raises, or response.json() raises
FailedFetch ==
    {[kind |-> k, body |-> <<>>] : k \in {"transport", "timeout", "http", "badjson"}}

Answers(bodies) == {[kind |-> "ok", body |-> b] : b \in bodies} \cup FailedFetch

Metrics == {"population", "area", "density", "gdp"}
FieldKeys == {"Poblacion", "Area", "Densidad", "PIB"}
Regions == {Am, AmLower, Eu, Oc}

Names == {Pe, PeLower, Ca, Oc}

\* fields=None, and two lists of keys for format_country_output
NoFields == [given |-> FALSE, keys |-> <<>>]
FieldsOf(keys) == [given |-> TRUE, keys |-> keys]
FieldLists == {NoFields, FieldsOf(<<"Nombre", "Poblacion">>), FieldsOf(<<"Densidad", "PIB">>)}

NoRequest ==
    [op |-> "none", metric |-> "", region |-> <<>>, name |-> <<>>,
     index |-> 0, fields |-> NoFields]
NoResponse == [exc |-> "none", status |-> 0, val |-> <<>>]

\* the requests in flight
Requests == 1..MaxRequests

\* a request that has not called requests.get yet
Idle ==
    [pc |-> "ready", request |-> NoRequest, answer |-> [kind |-> "none", body |-> <<>>],
     countries |-> <<>>, response |-> NoResponse]

InitWith(bodies) ==
    /\ api \in Answers(bodies)
    /\ pc = "ready"
    /\ request = NoRequest
    /\ countries = <<>>
    /\ response = NoResponse
    /\ events = <<>>
    /\ proc = [r \in Requests |-> Idle]

Init == InitWith(SeqsUpTo(QueryEntries, MaxLen))
InitNorm == InitWith(SeqsUpTo(RawEntries, MaxRaw))
InitStats == InitWith(SeqsUpTo(StatEntries, MaxSample))
InitRank == InitWith(RankBodies)

----------------------------------------------------------------------------
(* The calls: each is one request served from one fetch *)

\* the steps of a call in the order of its statements: both handlers call
\* get_countries() first (main.py 92 and 140) and compare the metric
\* afterwards, the else branch (99 and 149) being the invalid metric
Steps(req) ==
    CASE req.op = "top_10" ->
            <<"fetch", IF req.metric \in {"population", "area"}
                       THEN "sort" ELSE "invalid_metric">>
      [] req.op = "calculate_stats" ->
            <<"fetch", IF MetricKey(req.metric) # "none"
                       THEN "statistics" ELSE "invalid_metric">>
      [] OTHER -> <<"fetch">>

CallWith(req, result) ==
    /\ pc = "ready"
    /\ pc' = "done"
    /\ request' = req
    /\ countries' = get_countries(api)
    /\ response' = result
    /\ events' = Steps(req)
    /\ UNCHANGED <<api, proc>>

Call(op, metric, region, result) ==
    CallWith([NoRequest EXCEPT !.op = op, !.metric = metric, !.region = region], result)

\* a request FastAPI rejects before the handler is called: nothing is fetched
Reject(op, metric) ==
    /\ pc = "ready"
    /\ pc' = "done"
    /\ request' = [NoRequest EXCEPT !.op = op, !.metric = metric]
    /\ response' = RequestValidationError
    /\ events' = <<"invalid_metric">>
    /\ UNCHANGED <<api, countries, proc>>

GetAllCountries == Call("get_all_countries", "", <<>>, Serve(get_all_countries(api)))

\* metric is a path parameter: the regex of its Query(...) default is not
\* applied to it, the handler is called with any text
Top10 == \E metric \in Metrics : Call("top_10", metric, <<>>, Serve(top_10(metric, api)))

FilterByRegion ==
    \E region \in Regions :
        Call("filter_by_region", "", region, Serve(filter_by_region(region, api)))

\* metric is a query parameter declared with
\* regex="^(population|area|density)$": any other text is answered 422
CalculateStats ==
    \E metric \in Metrics :
        IF metric \in QueryPattern
        THEN Call("calculate_stats", metric, <<>>, Serve(calculate_stats(metric, api)))
        ELSE Reject("calculate_stats", metric)

CalculateStatistics ==
    \E metric \in FieldKeys :
        Call("calculate_statistics", metric, <<>>,
             calculate_statistics(get_countries(api), metric))

FilterCountriesByRegion ==
    \E region \in Regions :
        Call("filter_countries_by_region", "", region,
             filter_countries_by_region(get_countries(api), region))

FindExtremeValues ==
    \E metric \in FieldKeys :
        Call("find_extreme_values", metric, <<>>,
             find_extreme_values(get_countries(api), metric))

FindCountryByName ==
    \E name \in Names :
        CallWith([NoRequest EXCEPT !.op = "find_country_by_name", !.name = name],
                 find_country_by_name(get_countries(api), name))

\* the currencies string of one record of the fetched list is parsed
CleanCurrencyFormat ==
    \E i \in 1..Len(get_countries(api)) :
        CallWith([NoRequest EXCEPT !.op = "clean_currency_format", !.index = i],
                 clean_currency_format(get_countries(api)[i].Monedas))

\* the statistics interpreted are the ones calculate_statistics returns
InterpretStatistics ==
    \E metric \in FieldKeys :
        Call("interpret_statistics", metric, <<>>,
             interpret_statistics(calculate_statistics(get_countries(api), metric).val,
                                  metric))

\* one record of the fetched list is formatted
FormatCountryOutput ==
    \E i \in 1..Len(get_countries(api)), fields \in FieldLists :
        CallWith([NoRequest EXCEPT !.op = "format_country_output", !.index = i,
                                   !.fields = fields],
                 format_country_output(get_countries(api)[i], fields))

\* the ascending sequence of the members of a set of positions
RECURSIVE Ascending(_)
Ascending(idx) ==
    IF idx = {} THEN <<>>
    ELSE LET least == CHOOSE i \in idx : \A j \in idx : i <= j
         IN  <<least>> \o Ascending(idx \ {least})

\* the positions in cs of the dicts the value returned to req holds: the
\* comprehension of filter_countries_by_region, next() of
\* find_country_by_name, max() and min() of find_extreme_values and
\* `return country` of format_country_output hand out the dicts of the
\* input; the other helpers build new values
References(req, cs) ==
    CASE req.op = "filter_countries_by_region" ->
            IF \E i \in 1..Len(cs) : cs[i].Region.t # "str" THEN <<>>
            ELSE Ascending({i \in 1..Len(cs) : Lower(cs[i].Region.s) = Lower(req.region)})
      [] req.op = "find_country_by_name" ->
            Ascending({i \in 1..Len(cs) :
                          /\ Lower(cs[i].Nombre) = Lower(req.name)
                          /\ \A j \in 1..(i - 1) :
                                 Lower(cs[j].Nombre) # Lower(req.name)})
      [] req.op = "find_extreme_values" ->
            IF find_extreme_values(cs, req.metric).val.max = <<>> THEN <<>>
            ELSE <<FirstMax(cs, req.metric), FirstMin(cs, req.metric)>>
      [] req.op = "format_country_output" ->
            IF req.fields.given THEN <<>> ELSE <<req.index>>
      [] OTHER -> <<>>

\* the returned value as the caller sees it: its dicts are those of cs
Dereference(req, refs, cs) ==
    CASE req.op = "find_extreme_values" ->
            [max |-> <<cs[refs[1]]>>, min |-> <<cs[refs[2]]>>]
      [] req.op = "format_country_output" -> cs[refs[1]]
      [] OTHER -> [k \in 1..Len(refs) |-> cs[refs[k]]]

\* the text the caller assigns
Written == <<"X">>

\* the caller of a helper assigns to a key of a dict of the returned value:
\* result[k]["Nombre"] = "X"
CallerWrites ==
    /\ pc = "done"
    /\ pc' = "written"
    /\ LET refs == References(request, countries)
       IN  \E k \in 1..Len(refs) :
               /\ countries' = [countries EXCEPT ![refs[k]].Nombre = Written]
               /\ response' = [response EXCEPT
                                  !.val = Dereference(request, refs, countries')]
    /\ UNCHANGED <<api, request, events, proc>>

Next ==
    \/ CalculateStats
    \/ CleanCurrencyFormat
    \/ GetAllCountries
    \/ Top10
    \/ FilterByRegion
    \/ CalculateStatistics
    \/ FilterCountriesByRegion
    \/ FindExtremeValues
    \/ FindCountryByName
    \/ InterpretStatistics
    \/ FormatCountryOutput
    \/ CallerWrites

Spec == Init /\ [][Next]_vars
SpecNorm == InitNorm /\ [][Next]_vars
SpecStats == InitStats /\ [][Next]_vars

\* the ranking runs: the ranking endpoint over payloads longer than the cut-off
NextRank == Top10
SpecRank == InitRank /\ [][NextRank]_vars

----------------------------------------------------------------------------
(* Concurrent requests: each runs get_countries() and its handler on its   *)
(* own local variables; the steps of different requests interleave         *)

\* what the service answers to the requests of the concurrent runs
ConcAnswers ==
    {[kind |-> "ok", body |-> b] :
        b \in {<<>>, <<Entry(Pe, Num(3), Num(0), Txt(Am))>>,
               <<Entry(Ca, Num(1), Num(8), Txt(Eu)), Entry(Pe, Num(3), Num(0), Txt(Am))>>}}
    \cup {[kind |-> "timeout", body |-> <<>>]}

ConcRequests ==
    {[NoRequest EXCEPT !.op = "get_all_countries"],
     [NoRequest EXCEPT !.op = "top_10", !.metric = "population"],
     [NoRequest EXCEPT !.op = "filter_by_region", !.region = Am],
     [NoRequest EXCEPT !.op = "calculate_stats", !.metric = "area"]}

\* the handler of the request, served from what its fetch returned
Handle(req, answer) ==
    CASE req.op = "get_all_countries" -> Serve(get_all_countries(answer))
      [] req.op = "top_10" -> Serve(top_10(req.metric, answer))
      [] req.op = "filter_by_region" -> Serve(filter_by_region(req.region, answer))
      [] req.op = "calculate_stats" -> Serve(calculate_stats(req.metric, answer))

\* raw_data as a variable shared by the requests: the answer fetched by
\* another request in flight, when there is one
SharedRawData(p, r) ==
    IF \E q \in Requests : q # r /\ p[q].pc # "ready"
    THEN p[CHOOSE q \in Requests : q # r /\ p[q].pc # "ready"].answer
    ELSE p[r].answer

\* raw_data is a local variable of get_countries: the answer this request
\* fetched
raw_data(p, r) == p[r].answer

\* requests.get(...) of request r returns
Fetch(r) ==
    /\ proc[r].pc = "ready"
    /\ \E req \in ConcRequests, answer \in ConcAnswers :
           proc' = [proc EXCEPT ![r] = [Idle EXCEPT !.pc = "fetched", !.request = req,
                                                    !.answer = answer]]
    /\ UNCHANGED <<api, pc, request, countries, response, events>>

\* request r normalizes what it fetched and its handler returns
Finish(r) ==
    /\ proc[r].pc = "fetched"
    /\ proc' = [proc EXCEPT
                   ![r].pc = "done",
                   ![r].countries = get_countries(raw_data(proc, r)),
                   ![r].response = Handle(proc[r].request, raw_data(proc, r))]
    /\ UNCHANGED <<api, pc, request, countries, response, events>>

NextConc == \E r \in Requests : Fetch(r) \/ Finish(r)

InitConc == InitWith({<<>>}) /\ api.kind = "ok"
SpecConc == InitConc /\ [][NextConc]_vars

----------------------------------------------------------------------------
(* Vocabulary of the properties *)

HttpOps == {"get_all_countries", "top_10", "filter_by_region", "calculate_stats"}
RankMetrics == {"population", "area"}
StatMetrics == {"population", "area", "density"}
StatKeys == {"Poblacion", "Area", "Densidad"}

\* the call has returned and its handler ran get_countries()
Fetched == pc = "done" /\ response.exc # "RequestValidationError"

Abs(x) == IF x < 0 THEN -x ELSE x
Min(a, b) == IF a < b THEN a ELSE b

\* the key of the canonical record the call's metric selects
RequestKey ==
    IF request.op \in {"top_10", "calculate_stats"}
    THEN MetricKey(request.metric) ELSE request.metric

\* the qualifying sample of the call, in hundredths
Sample == Positive(countries, RequestKey)

\* no record of the list has a value above zero under the key
NoPositive(cs, key) ==
    \A i \in 1..Len(cs) : ~(IsNum(Field(cs[i], key)) /\ Field(cs[i], key).n > 0)

AllNumbers(cs, key) == \A i \in 1..Len(cs) : IsNum(Field(cs[i], key))

AllZero(st) == st.mean = 0 /\ st.median = 0 /\ st.variance = 0 /\ st.std_dev = 0

\* the population variance of a sample given in hundredths, rounded to two
\* decimals, in thousandths
PopulationVariance(values) ==
    LET n == Len(values)
    IN  10 * RoundDiv(n * SumSq(values) - Sum(values) * Sum(values), 100 * n * n)

\* the position in the fetched list of the record with this name
Pos(name) == CHOOSE k \in 1..Len(countries) : countries[k].Nombre = name

Returned(k) == \E i \in 1..Len(response.val) : response.val[i].name = countries[k].Nombre

\* the indices of the records whose region is the text wanted, whatever the case
Matching(cs, region) ==
    {i \in 1..Len(cs) : cs[i].Region.t = "str" /\ Lower(cs[i].Region.s) = Lower(region)}

\* out is the records of cs at the indices idx, in the order of cs
IsSelection(out, cs, idx) ==
    /\ Len(out) = Cardinality(idx)
    /\ \A k \in 1..Len(out) :
          \E i \in idx : /\ out[k] = cs[i]
                         /\ Cardinality({j \in idx : j < i}) = k - 1

----------------------------------------------------------------------------
(* C1: normalization returns one canonical record per raw entry of a       *)
(* payload that is a list: an entry that is well-formed is returned as its *)
(* canonical record at its position whatever the other entries are, and a  *)
(* malformed entry never empties the result.                               *)
C1_OneRecordPerEntry ==
    (Fetched /\ api.kind = "ok") =>
        /\ Len(countries) = Len(api.body)
        /\ \A i \in 1..Len(api.body) :
              NormalizeEntry(api.body[i]).exc = "none" =>
                  countries[i] = NormalizeEntry(api.body[i]).val

(* C2: every canonical record satisfies the density invariant: with a      *)
(* positive area the density is population / area rounded to the nearest   *)
(* hundredth (a tie goes to the even hundredth), with an area of zero or   *)
(* less it is 0.0; this stays so after every call.                         *)
C2_DensityInvariant ==
    \A i \in 1..Len(countries) :
        LET c == countries[i]
            d == c.Densidad
        IN  /\ IsNum(c.Area)
            /\ c.Area.n <= 0 => d = 0
            /\ c.Area.n > 0 =>
                  /\ IsNum(c.Poblacion)
                  /\ 2 * Abs(d * c.Area.n - 100 * c.Poblacion.n) <= c.Area.n
                  /\ 2 * Abs(d * c.Area.n - 100 * c.Poblacion.n) = c.Area.n
                         => d % 2 = 0

C2_Witness ==
    /\ pc = "done"
    /\ \E i \in 1..Len(countries) :
          countries[i].Area.n = 8 /\ countries[i].Densidad = 38
    /\ \E i \in 1..Len(countries) :
          countries[i].Area.n < 0 /\ countries[i].Poblacion.n > 0

(* C3: the variance a statistics computation returns is the population     *)
(* variance of the qualifying sample (divisor N), rounded to 2 decimals,   *)
(* for utils.calculate_statistics and for the stats endpoint alike.        *)
C3_PopulationVariance ==
    (/\ pc = "done"
     /\ request.op \in {"calculate_statistics", "calculate_stats"}
     /\ RequestKey \in StatKeys
     /\ response.exc = "none"
     /\ Sample # <<>>)
        => response.val.variance = PopulationVariance(Sample)

(* C4 as claimed: when no record has a value above zero for the metric,    *)
(* utils.calculate_statistics and the stats endpoint both return all-zero  *)
(* statistics and report no error.                                         *)
C4_ZeroStatsEverywhere ==
    (/\ pc = "done"
     /\ request.op \in {"calculate_statistics", "calculate_stats"}
     /\ RequestKey \in StatKeys
     /\ NoPositive(countries, RequestKey))
        => response.exc = "none" /\ AllZero(response.val)

(* C4 as amended: when no record has a value above zero for the metric,    *)
(* utils.calculate_statistics returns all-zero statistics and does not     *)
(* raise; the stats endpoint returns no statistics: it answers 400 when    *)
(* every value of the metric is a number and 500 when one is not.          *)
C4_ZeroStatsOrClientError ==
    (/\ pc = "done"
     /\ RequestKey \in StatKeys
     /\ NoPositive(countries, RequestKey))
        => /\ request.op = "calculate_statistics" =>
                 response.exc = "none" /\ AllZero(response.val)
           /\ request.op = "calculate_stats" =>
                 /\ response.exc = "HTTPException"
                 /\ response.status =
                        IF AllNumbers(countries, RequestKey) THEN 400 ELSE 500

C4_Witness ==
    /\ pc = "done"
    /\ request.op = "calculate_stats"
    /\ request.metric = "population"
    /\ countries # <<>>
    /\ NoPositive(countries, "Poblacion")
    /\ response.status = 400

(* C5: a ranking, extreme-value or statistics operation called with a      *)
(* metric outside the closed set fails with the InvalidMetric client error *)
(* (400 or 422 at an endpoint, an exception from a helper) and returns no   *)
(* result.                                                                 *)
C5_InvalidMetricRejected ==
    /\ (pc = "done" /\ request.op \in {"top_10", "calculate_stats"}
            /\ request.metric \notin StatMetrics)
          => response.exc # "none" /\ response.status \in {400, 422}
    /\ (pc = "done" /\ request.op \in {"calculate_statistics", "find_extreme_values"}
            /\ request.metric \notin StatKeys)
          => response.exc # "none"

(* C6: a failed fetch is signalled: what get_countries hands to its caller *)
(* differs from what it hands over after fetching an empty collection, and *)
(* no endpoint answers 200 to a request whose fetch failed.                *)
C6_FetchFailureSignalled ==
    (Fetched /\ api.kind # "ok") =>
        /\ countries # get_countries([kind |-> "ok", body |-> <<>>])
        /\ request.op \in HttpOps => response.status # 200

(* C7: when the region matches no record, the filter endpoint answers 404, *)
(* not 500.                                                                *)
C7_NotFoundIs404 ==
    (/\ pc = "done"
     /\ request.op = "filter_by_region"
     /\ \A i \in 1..Len(countries) : countries[i].Region.t = "str"
     /\ Matching(countries, request.region) = {})
        => response.status = 404

(* C8: top-N returns at most min(n, count) entries, each the name and the  *)
(* value of a fetched record, in non-increasing order of the value, and    *)
(* every returned value is at least the value of every record left out.    *)
C8_TopNBoundedAndOrdered ==
    (pc = "done" /\ request.op = "top_10" /\ response.exc = "none") =>
        LET out == response.val
        IN  /\ request.metric \in RankMetrics
            /\ Len(out) <= Min(TopN, Len(countries))
            /\ \A i \in 1..Len(out) :
                  \E k \in 1..Len(countries) :
                      /\ countries[k].Nombre = out[i].name
                      /\ Field(countries[k], RequestKey) = out[i].metric_value
            /\ \A i \in 1..(Len(out) - 1) :
                  out[i].metric_value.n >= out[i + 1].metric_value.n
            /\ \A k \in 1..Len(countries) :
                  ~Returned(k) =>
                      \A i \in 1..Len(out) :
                          out[i].metric_value.n >= Field(countries[k], RequestKey).n

C8_Witness ==
    /\ pc = "done"
    /\ request.op = "top_10"
    /\ response.exc = "none"
    /\ Len(countries) > TopN
    /\ Len(response.val) = TopN
    /\ response.val[1].metric_value.n > response.val[TopN].metric_value.n
    /\ \E k \in 1..Len(countries) :
          ~Returned(k) /\ Field(countries[k], RequestKey).n <= response.val[TopN].metric_value.n

(* C9: the ranking is stable: returned entries of equal value are in input *)
(* order, and a record left out at the cut-off comes later in the input    *)
(* than every returned record of the same value.                           *)
C9_StableRanking ==
    (pc = "done" /\ request.op = "top_10" /\ response.exc = "none") =>
        LET out == response.val
        IN  /\ \A i, j \in 1..Len(out) :
                  (i < j /\ out[i].metric_value = out[j].metric_value)
                      => Pos(out[i].name) < Pos(out[j].name)
            /\ \A k \in 1..Len(countries) :
                  ~Returned(k) =>
                      \A i \in 1..Len(out) :
                          out[i].metric_value = Field(countries[k], RequestKey)
                              => Pos(out[i].name) < k

C9_Witness ==
    /\ pc = "done"
    /\ request.op = "top_10"
    /\ response.exc = "none"
    /\ Len(response.val) = TopN
    /\ response.val[TopN - 1].metric_value = response.val[TopN].metric_value
    /\ \E k \in 1..Len(countries) :
          /\ ~Returned(k)
          /\ Field(countries[k], RequestKey) = response.val[TopN].metric_value
    /\ \E k \in 1..(TopN - 1) : ~Returned(k)

(* C10: filter_countries_by_region returns exactly the records whose       *)
(* region equals the requested one ignoring letter case, in input order,   *)
(* and returns the empty list without raising when none does; the same     *)
(* region in another letter case gives the same result; the list the       *)
(* endpoint returns is that same selection.                                *)
C10_RegionFilter ==
    /\ (pc = "done" /\ request.op = "filter_countries_by_region") =>
          /\ response.exc = "none"
          /\ IsSelection(response.val, countries, Matching(countries, request.region))
          /\ \A other \in Regions :
                Lower(other) = Lower(request.region) =>
                    filter_countries_by_region(countries, other) = response
    /\ (pc = "done" /\ request.op = "filter_by_region" /\ response.exc = "none") =>
          IsSelection(response.val, countries, Matching(countries, request.region))

C10_Witness ==
    /\ pc = "done"
    /\ request.op = "filter_countries_by_region"
    /\ request.region = Am
    /\ Len(countries) = 3
    /\ countries[1].Region.s = AmLower
    /\ countries[2].Region.s = Eu
    /\ countries[3].Region.s = Am
    /\ Len(response.val) = 2

\* every optional field of the raw entry is missing
EveryFieldAbsent(e) ==
    /\ e.name.t = "absent"
    /\ e.population.t = "absent"
    /\ e.area.t = "absent"
    /\ e.region.t = "absent"
    /\ e.subregion.t = "absent"
    /\ e.languages.t = "absent"
    /\ e.currencies.t = "absent"

(* C11: a raw entry in which every optional field is absent is normalized  *)
(* without raising, and its canonical record has name "N/A", population 0, *)
(* area 0, region "N/A", subregion "N/A", languages "N/A", currencies      *)
(* "N/A" and density 0.0: a payload of such entries is returned whole, and *)
(* in every returned batch the record of such an entry has these values.   *)
C11_AbsentFieldsDefault ==
    (Fetched /\ api.kind = "ok") =>
        /\ \A i \in 1..Len(api.body) :
              EveryFieldAbsent(api.body[i]) => NormalizeEntry(api.body[i]).exc = "none"
        /\ (\A i \in 1..Len(api.body) : EveryFieldAbsent(api.body[i]))
              => Len(countries) = Len(api.body)
        /\ Len(countries) = Len(api.body) =>
              \A i \in 1..Len(api.body) :
                  EveryFieldAbsent(api.body[i]) =>
                      countries[i] =
                          [Nombre |-> <<"N", "/", "A">>,
                           Poblacion |-> Num(0),
                           Area |-> Num(0),
                           Densidad |-> 0,
                           Region |-> Txt(<<"N", "/", "A">>),
                           Subregion |-> Txt(<<"N", "/", "A">>),
                           Idiomas |-> <<"N", "/", "A">>,
                           Monedas |-> <<"N", "/", "A">>]

C11_Witness ==
    /\ pc = "done"
    /\ Len(api.body) = 2
    /\ ~EveryFieldAbsent(api.body[1])
    /\ EveryFieldAbsent(api.body[2])
    /\ Len(countries) = 2
    /\ countries[2].Nombre = NA
    /\ countries[2].Densidad = 0

(* C12: for a non-empty collection whose values of the metric are numbers, *)
(* find_extreme_values returns as max a record of the collection whose     *)
(* value is at least that of every record and as min one whose value is at *)
(* most that of every record; for the empty collection it returns the      *)
(* no-data result (empty max, empty min); it never raises.                 *)
C12_ExtremeValues ==
    (/\ pc = "done"
     /\ request.op = "find_extreme_values"
     /\ RequestKey \in StatKeys
     /\ AllNumbers(countries, RequestKey))
        => /\ response.exc = "none"
           /\ countries = <<>> => response.val = [max |-> <<>>, min |-> <<>>]
           /\ countries # <<>> =>
                 /\ Len(response.val.max) = 1
                 /\ Len(response.val.min) = 1
                 /\ \E k \in 1..Len(countries) : countries[k] = response.val.max[1]
                 /\ \E k \in 1..Len(countries) : countries[k] = response.val.min[1]
                 /\ \A i \in 1..Len(countries) :
                       /\ Field(response.val.max[1], RequestKey).n
                              >= Field(countries[i], RequestKey).n
                       /\ Field(response.val.min[1], RequestKey).n
                              <= Field(countries[i], RequestKey).n

\* populations [20, 40, 10] give max 40 and min 10
C12_Witness ==
    /\ pc = "done"
    /\ request.op = "find_extreme_values"
    /\ request.metric = "Poblacion"
    /\ Len(countries) = 3
    /\ countries[1].Poblacion.n = 20
    /\ countries[2].Poblacion.n = 40
    /\ countries[3].Poblacion.n = 10
    /\ response.val.max[1].Poblacion.n = 40
    /\ response.val.min[1].Poblacion.n = 10

\* the records of cs whose value under the key is above zero, in order
Qualifying(cs, key) ==
    LET Above(c) == Field(c, key).n > 0
    IN  SelectSeq(cs, Above)

\* the values, in hundredths, of the key in the records of cs
ValuesOf(cs, key) == [i \in 1..Len(cs) |-> Centi(cs[i], key)]

(* C13: the sample of a statistics computation is the values above zero,  *)
(* one per qualifying record: the mean is their sum over their count, and  *)
(* the four statistics (or the refusal of the endpoint) are what the same  *)
(* computation gives on the collection without its records of value zero   *)
(* or less.                                                                *)
C13_SampleIsPositiveValues ==
    (/\ pc = "done"
     /\ request.op \in {"calculate_statistics", "calculate_stats"}
     /\ RequestKey \in StatKeys
     /\ AllNumbers(countries, RequestKey))
        => LET q == Qualifying(countries, RequestKey)
               vals == ValuesOf(q, RequestKey)
           IN  /\ (response.exc = "none" /\ q # <<>>) =>
                     response.val.mean = 10 * RoundDiv(Sum(vals), Len(vals))
               /\ request.op = "calculate_statistics" =>
                     response = calculate_statistics(q, request.metric)
               /\ request.op = "calculate_stats" =>
                     LET alone == calculate_statsTry(request.metric, q)
                     IN  /\ response.exc = "none" =>
                               alone = Return(response.val)
                         /\ response.exc # "none" =>
                               alone.exc = "ZeroDivisionError" /\ response.status = 400

C13_Witness ==
    /\ pc = "done"
    /\ request.op = "calculate_stats"
    /\ request.metric = "density"
    /\ Len(countries) = 3
    /\ countries[1].Poblacion.n = 10
    /\ countries[2].Poblacion.n = -10
    /\ countries[3].Poblacion.n = 0
    /\ response.val.mean = 2500
    /\ response.val.variance = 0

\* the median of a non-empty sample given in hundredths, in thousandths:
\* the middle element of the ascending sample, or the average of the two
\* middle elements
MiddleOfAscending(values) ==
    LET sv == SortedAsc(values)
        n == Len(sv)
        half == n \div 2
    IN  IF n % 2 = 1 THEN 10 * sv[half + 1]
        ELSE (10 * sv[half] + 10 * sv[half + 1]) \div 2

(* C14: the median a statistics computation returns for a non-empty sample *)
(* is the middle element of the ascending-sorted sample when the count is  *)
(* odd and the average of the two middle elements when it is even,         *)
(* whatever the order of the records.                                      *)
C14_MedianIsMiddle ==
    (/\ pc = "done"
     /\ request.op \in {"calculate_statistics", "calculate_stats"}
     /\ RequestKey \in StatKeys
     /\ response.exc = "none"
     /\ Sample # <<>>)
        => response.val.median = MiddleOfAscending(Sample)

(* C15: find_country_by_name returns the first record in input order whose *)
(* name equals the requested name ignoring letter case (the earliest one   *)
(* when several records share the name), and None when no record matches.  *)
C15_FirstByName ==
    (pc = "done" /\ request.op = "find_country_by_name") =>
        /\ response.exc = "none"
        /\ (\A i \in 1..Len(countries) :
                Lower(countries[i].Nombre) # Lower(request.name))
              => response.val = <<>>
        /\ \A i \in 1..Len(countries) :
              (/\ Lower(countries[i].Nombre) = Lower(request.name)
               /\ \A j \in 1..(i - 1) :
                      Lower(countries[j].Nombre) # Lower(request.name))
                  => response.val = <<countries[i]>>

C15_Witness ==
    /\ pc = "done"
    /\ request.op = "find_country_by_name"
    /\ request.name = Pe
    /\ Len(countries) = 3
    /\ countries[1].Nombre = Ca
    /\ countries[2].Nombre = PeLower
    /\ countries[3].Nombre = Pe
    /\ countries[2] # countries[3]
    /\ response.val = <<countries[2]>>

\* the value the call returned is made of the dicts References lists
ReturnedByReference ==
    (pc = "done" /\ References(request, countries) # <<>>) =>
        response.val = Dereference(request, References(request, countries), countries)

(* C16: no query or statistics operation alters the input collection:      *)
(* after the operation has returned, and after the caller has changed the  *)
(* value returned to it, the collection holds the records normalization    *)
(* produced, with the same field values in the same order.                 *)
C16_InputNeverAltered ==
    (pc \in {"done", "written"} /\ response.exc # "RequestValidationError") =>
        countries = get_countries(api)

(* C17: in the top-N and statistics handlers the metric is validated       *)
(* before anything else: a call with an invalid metric fetches nothing, so *)
(* no fetch event precedes an invalid-metric event.                         *)
C17_ValidationBeforeFetch ==
    request.op \in {"top_10", "calculate_stats"} =>
        \A i, j \in 1..Len(events) :
            (events[i] = "fetch" /\ events[j] = "invalid_metric") => j < i

(* C18: concurrent requests are independent: whatever the interleaving of  *)
(* the steps of the requests in flight, the collection and the result of a *)
(* finished request are those it produces alone on the answer its own      *)
(* fetch returned, and a request that has not finished has written nothing *)
(* another request reads.                                                  *)
C18_RequestsIndependent ==
    \A r \in Requests :
        /\ proc[r].pc = "done" =>
              /\ proc[r].countries = get_countries(proc[r].answer)
              /\ proc[r].response = Handle(proc[r].request, proc[r].answer)
        /\ proc[r].pc # "done" =>
              proc[r].countries = <<>> /\ proc[r].response = NoResponse

\* both requests fetched before either finished, with different answers
C18_Witness ==
    /\ proc[1].pc = "done"
    /\ proc[2].pc = "fetched"
    /\ proc[1].request.op = "top_10"
    /\ proc[2].request.op = "top_10"
    /\ Len(proc[1].answer.body) = 2
    /\ proc[2].answer.kind = "timeout"
    /\ proc[1].response.status = 200
    /\ Len(proc[1].response.val) = 2

\* n * n times the exact population variance of a sample given in
\* hundredths, in hundredths squared
ScaledVariance(values) ==
    Len(values) * SumSq(values) - Sum(values) * Sum(values)

\* sd, in hundredths, is the square root of the exact population variance
\* rounded to two decimals: |sd - sqrt(D) / n| <= 1/2
IsRootOfExactVariance(sd, values) ==
    LET n == Len(values)
        D == ScaledVariance(values)
    IN  /\ sd >= 0
        /\ (sd > 0) => (2 * sd - 1) * (2 * sd - 1) * n * n <= 4 * D
        /\ 4 * D <= (2 * sd + 1) * (2 * sd + 1) * n * n

(* C19: rounding is applied only to the final value of each statistic: the *)
(* variance returned is the exact population variance of the sample (from  *)
(* the unrounded mean) rounded to 2 decimals, and the standard deviation   *)
(* returned is the square root of the unrounded variance rounded to 2      *)
(* decimals.                                                               *)
C19_RoundingOnlyAtTheEnd ==
    (/\ pc = "done"
     /\ request.op \in {"calculate_statistics", "calculate_stats"}
     /\ RequestKey \in StatKeys
     /\ response.exc = "none"
     /\ Sample # <<>>)
        => /\ response.val.variance =
                 10 * RoundDiv(ScaledVariance(Sample), 100 * Len(Sample) * Len(Sample))
           /\ response.val.std_dev % 10 = 0
           /\ IsRootOfExactVariance(response.val.std_dev \div 10, Sample)

PositiveSkew == "- Alta asimetria positiva (valores extremos altos)."
NegativeSkew == "- Alta asimetria negativa (valores extremos bajos)."
Symmetric == "- Distribucion simetrica."
InsufficientData == "No hay suficientes datos para interpretar estadisticas."

\* the statistics the interpretation of the call was made from
Interpreted == calculate_statistics(countries, request.metric).val

\* the skew classes named in the text returned
SkewLines ==
    {i \in 1..Len(response.val) :
        response.val[i].text \in {PositiveSkew, NegativeSkew, Symmetric}}

(* C20: for statistics with mean above 0 the interpretation names exactly  *)
(* one skew class: high positive skew when mean > median x 1.2, otherwise  *)
(* high negative skew when median > mean x 1.2, otherwise symmetric; for   *)
(* statistics with mean 0 it names no skew class and is the                *)
(* insufficient-data message alone.                                        *)
C20_OneSkewClass ==
    (pc = "done" /\ request.op = "interpret_statistics") =>
        LET st == Interpreted
        IN  /\ response.exc = "none"
            /\ st.mean > 0 =>
                  /\ Cardinality(SkewLines) = 1
                  /\ \A i \in SkewLines :
                        response.val[i].text =
                            IF 10 * st.mean > 12 * st.median THEN PositiveSkew
                            ELSE IF 10 * st.median > 12 * st.mean THEN NegativeSkew
                            ELSE Symmetric
            /\ st.mean = 0 =>
                  /\ SkewLines = {}
                  /\ Len(response.val) = 1
                  /\ response.val[1].text = InsufficientData

\* populations [10, 40, 40]: mean 30, median 40 > 36
C20_Witness ==
    /\ pc = "done"
    /\ request.op = "interpret_statistics"
    /\ request.metric = "Poblacion"
    /\ Interpreted.mean = 30000
    /\ Interpreted.median = 40000
    /\ response.val[2].text = NegativeSkew

\* the well-formed currencies of the raw entry the call's record came from
RawCurrencies ==
    LET items == api.body[request.index].currencies.items
    IN  {items[k] : k \in {j \in 1..Len(items) : items[j].wf}}

(* C21: for every currencies string normalization produces other than     *)
(* "N/A", clean_currency_format returns a code and a name that are a code  *)
(* and a name of well-formed currencies of the raw record, never the       *)
(* invalid-format result; this includes records with two or more           *)
(* currencies.                                                             *)
C21_CurrencyRoundTrip ==
    (/\ pc = "done"
     /\ request.op = "clean_currency_format"
     /\ countries[request.index].Monedas # NA)
        => /\ response.exc = "none"
           /\ response.val # [code |-> NA, name |-> FormatoInvalido]
           /\ \E c \in RawCurrencies : c.code = response.val.code
           /\ \E c \in RawCurrencies : c.name = response.val.name

\* the same for the records with exactly one well-formed currency
C21_SingleCurrency ==
    (/\ pc = "done"
     /\ request.op = "clean_currency_format"
     /\ Cardinality(RawCurrencies) = 1)
        => \E c \in RawCurrencies :
               response.val = [code |-> c.code, name |-> c.name]

====
